---- MODULE Spec2Model ----
(***************************************************************************)
(* HeyGenClient (src/src/pipecat/services/heygen/client.py): the session   *)
(* lifecycle, the realtime websocket channel with its receive task, and    *)
(* the audio buffer accumulator, together with the remote HeyGen API, the  *)
(* websocket server and the task manager as a nondeterministic             *)
(* environment (every remote call either succeeds or raises).              *)
(*                                                                         *)
(* The caller's operations are invoked one after the other by a single     *)
(* caller; each is one action. The receive tasks run concurrently, one     *)
(* step per phase of a loop iteration. A receive task reads connected and  *)
(* websocket only; an operation writes them after its last await, except  *)
(* stop(), whose values between _ws_disconnect and cleanup are those a     *)
(* stop() with a failing close_session ends with.                          *)
(***************************************************************************)
EXTENDS Integers, Sequences, FiniteSets, TLC

\* ------------------------------------------------------------- constants
HEY_GEN_SAMPLE_RATE == 24000
\* send_audio: "finish and buffered < 80" discards the buffer
MinCommitMs == 80
\* send_audio: "buffered > 1000" commits without finish
MaxBufferMs == 1000

\* ---------------------------------------------------------------- bounds
\* remote sessions the API hands out (session ids 1..MaxSessions) and
\* websocket connections that are ever opened (connection ids 1..MaxConns),
\* for the specification of the caller's operations
MaxSessions == 2
MaxConns == 1
\* the same two for the specification of the audio buffer, which runs the
\* short audio chunks
MaxAudioSessions == 1
MaxAudioConns == 1
\* cap on the buffered duration after repeated failed commits
MaxBufferedMs == 1040
\* The ids uuid4 hands out in a behaviour that keeps count.
MaxUuids == 5
\* Sessions and connections for the specification of the receive tasks.
MaxLiveSessions == 1
MaxLiveConns == 2


\* The audio chunks the pipeline delivers: byte length and sample rate.
\* 3840 bytes at 48 kHz is 40 ms, 30720 bytes at 16 kHz is 960 ms; the
\* lengths are whole milliseconds at every rate so that the integer
\* arithmetic below is exact.
AudioChunks ==
    { [len |-> 3840, sample_rate |-> 48000],
      [len |-> 30720, sample_rate |-> 16000] }

\* One chunk of 520 ms (24960 bytes at 24 kHz), for the specification of
\* the caller's lifecycle and control operations.
LongChunks == { [len |-> 24960, sample_rate |-> 24000] }

VARIABLES
    heyGen_session,              \* self._heyGen_session: 0 is None, else the session id
    websocket,                   \* self._websocket: 0 is None, else the connection id
    task_manager,                \* self._task_manager is set
    connected,                   \* self._connected
    buffered_audio_duration_ms,  \* self._buffered_audio_duration_ms
    sessions,                    \* remote API: session id -> "none" | "created" | "started" | "closed"
    connections,                 \* websocket server: connection id -> [state, endpoint]
    receive_tasks,               \* task manager: task id -> [pc, ws]
    params,                      \* self._params: the transport params given to __init__
    in_sample_rate,              \* self._in_sample_rate
    out_sample_rate,             \* self._out_sample_rate
    uuids,                       \* uuid.uuid4(): how many ids it has handed out
    uuids_kept,                  \* whether this behaviour keeps that count across calls
    last                         \* the last step: a caller's operation with its inputs,
                                 \* pre-state and effects, or a step of a receive task

vars == << heyGen_session, websocket, task_manager, connected,
           buffered_audio_duration_ms, sessions, connections, receive_tasks,
           params, in_sample_rate, out_sample_rate, uuids, uuids_kept, last >>

\* The ids the environment hands out in the current behaviour.
SessionIds == DOMAIN sessions
ConnIds == DOMAIN connections

\* ------------------------------------------------------- pure functions
\* create_stream_resampler().resample(audio, in_rate, out_rate): the length
\* in bytes of the resampled 16-bit audio (pass-through at equal rates).
resample(len, in_rate, out_rate) ==
    IF in_rate = out_rate THEN len
    ELSE 2 * (((len \div 2) * out_rate) \div in_rate)

\* _calculate_audio_duration_ms: two bytes per sample.
calculate_audio_duration_ms(len, sample_rate) ==
    ((len \div 2) * 1000) \div sample_rate

ChunkDurationMs(chunk) ==
    calculate_audio_duration_ms(
        resample(chunk.len, chunk.sample_rate, HEY_GEN_SAMPLE_RATE),
        HEY_GEN_SAMPLE_RATE)

\* ------------------------------------------------ the state of one call
\* The record an operation works on: the object's fields, the environment,
\* and what the call has done so far (api: remote and task-manager calls in
\* order; issued: messages handed to _ws_send; sent: messages written to a
\* connection; logs; raised: an exception is propagating).
NoFrame == [audio_in_sample_rate |-> 0, audio_out_sample_rate |-> 0]

Snapshot ==
    [ heyGen_session |-> heyGen_session,
      websocket |-> websocket,
      task_manager |-> task_manager,
      connected |-> connected,
      buffered |-> buffered_audio_duration_ms,
      sessions |-> sessions,
      connections |-> connections,
      receive_tasks |-> receive_tasks,
      params |-> params,
      in_sample_rate |-> in_sample_rate,
      out_sample_rate |-> out_sample_rate,
      uuids |-> uuids,
      frame |-> NoFrame,
      api |-> << >>,
      issued |-> << >>,
      sent |-> << >>,
      logs |-> << >>,
      cleanups |-> 0,
      disconnect |-> [connected |-> FALSE, websocket |-> 0],
      raised |-> FALSE ]

ApiCall(name, arg, ok) == [name |-> name, arg |-> arg, ok |-> ok]

FreeSessionIds == { i \in SessionIds : sessions[i] = "none" }
FreeConnIds == { i \in ConnIds : connections[i].state = "none" }
NextSessionId == CHOOSE i \in FreeSessionIds : \A j \in FreeSessionIds : i <= j
NextConnId == CHOOSE i \in FreeConnIds : \A j \in FreeConnIds : i <= j

NoTask == [pc |-> "none", ws |-> 0]

\* ----------------------------------------------------- session lifecycle
\* cleanup() that keeps the session reference after a successful close.
cleanup_keeps_session(st, okClose) ==
    LET s0 == [st EXCEPT !.cleanups = @ + 1] IN
    IF s0.heyGen_session # 0
    THEN LET sid == s0.heyGen_session
             s1 == [s0 EXCEPT !.api = Append(@, ApiCall("close_session", sid, okClose))]
         IN IF okClose
            THEN [s1 EXCEPT !.sessions[sid] = "closed",
                            !.connected = FALSE,
                            !.buffered = 0]
            ELSE [s1 EXCEPT !.logs = Append(@, "cleanup exception")]
    ELSE s0

\* cleanup() without its try/except: a failing close_session propagates.
cleanup_raises(st, okClose) ==
    LET s0 == [st EXCEPT !.cleanups = @ + 1] IN
    IF s0.heyGen_session # 0
    THEN LET sid == s0.heyGen_session
             s1 == [s0 EXCEPT !.api = Append(@, ApiCall("close_session", sid, okClose))]
         IN IF okClose
            THEN [s1 EXCEPT !.sessions[sid] = "closed",
                            !.heyGen_session = 0,
                            !.connected = FALSE,
                            !.buffered = 0]
            ELSE [s1 EXCEPT !.raised = TRUE]
    ELSE s0

\* cleanup() that drops the session reference when close_session fails.
cleanup_forgets_session(st, okClose) ==
    LET s0 == [st EXCEPT !.cleanups = @ + 1] IN
    IF s0.heyGen_session # 0
    THEN LET sid == s0.heyGen_session
             s1 == [s0 EXCEPT !.api = Append(@, ApiCall("close_session", sid, okClose))]
         IN IF okClose
            THEN [s1 EXCEPT !.sessions[sid] = "closed",
                            !.heyGen_session = 0,
                            !.connected = FALSE,
                            !.buffered = 0]
            ELSE [s1 EXCEPT !.logs = Append(@, "cleanup exception"),
                            !.heyGen_session = 0]
    ELSE s0

\* cleanup() that leaves the connected flag as it is.
cleanup_keeps_connected(st, okClose) ==
    LET s0 == [st EXCEPT !.cleanups = @ + 1] IN
    IF s0.heyGen_session # 0
    THEN LET sid == s0.heyGen_session
             s1 == [s0 EXCEPT !.api = Append(@, ApiCall("close_session", sid, okClose))]
         IN IF okClose
            THEN [s1 EXCEPT !.sessions[sid] = "closed",
                            !.heyGen_session = 0,
                            !.buffered = 0]
            ELSE [s1 EXCEPT !.logs = Append(@, "cleanup exception")]
    ELSE s0

\* cleanup(): close_session for the held session, then reset; every
\* exception is caught and logged.
cleanup(st, okClose) ==
    LET s0 == [st EXCEPT !.cleanups = @ + 1] IN
    IF s0.heyGen_session # 0
    THEN LET sid == s0.heyGen_session
             s1 == [s0 EXCEPT !.api = Append(@, ApiCall("close_session", sid, okClose))]
         IN IF okClose
            THEN [s1 EXCEPT !.sessions[sid] = "closed",
                            !.heyGen_session = 0,
                            !.connected = FALSE,
                            !.buffered = 0]
            ELSE [s1 EXCEPT !.logs = Append(@, "cleanup exception")]
    ELSE s0

\* _initialize(): new_session, keep the session, start_session; an exception
\* of either call propagates.
initialize(st, sid, okNew, okStart) ==
    LET s1 == [st EXCEPT !.api = Append(@, ApiCall("new_session", sid, okNew))] IN
    IF ~okNew
    THEN [s1 EXCEPT !.raised = TRUE]
    ELSE LET s2 == [s1 EXCEPT !.sessions[sid] = "created",
                              !.heyGen_session = sid,
                              !.api = Append(@, ApiCall("start_session", sid, okStart))]
         IN IF okStart
            THEN [s2 EXCEPT !.sessions[sid] = "started"]
            ELSE [s2 EXCEPT !.raised = TRUE]

\* setup() without the "already initialized" return.
setup_always_initializes(st, sid, okNew, okStart, okClose) ==
    LET s1 == initialize([st EXCEPT !.task_manager = TRUE], sid, okNew, okStart) IN
    IF s1.raised
    THEN cleanup([s1 EXCEPT !.raised = FALSE,
                            !.logs = Append(@, "setup failed")], okClose)
    ELSE s1

\* setup() that logs a failed _initialize and does not clean up.
setup_no_cleanup(st, sid, okNew, okStart, okClose) ==
    IF st.heyGen_session # 0
    THEN st
    ELSE LET s1 == initialize([st EXCEPT !.task_manager = TRUE], sid, okNew, okStart) IN
         IF s1.raised
         THEN [s1 EXCEPT !.raised = FALSE, !.logs = Append(@, "setup failed")]
         ELSE s1

\* setup(): nothing when a session is held; otherwise _initialize, and on
\* an exception log and cleanup.
setup(st, sid, okNew, okStart, okClose) ==
    IF st.heyGen_session # 0
    THEN st
    ELSE LET s1 == initialize([st EXCEPT !.task_manager = TRUE], sid, okNew, okStart) IN
         IF s1.raised
         THEN cleanup([s1 EXCEPT !.raised = FALSE,
                                 !.logs = Append(@, "setup failed")], okClose)
         ELSE s1

\* ------------------------------------------------------------- websocket
\* _ws_connect() without the "already connected" return.
ws_connect_always(st, cid, okConnect, okTask) ==
    IF st.heyGen_session = 0
    THEN [st EXCEPT !.logs = Append(@, "initialization error"), !.websocket = 0]
    ELSE LET s1 == [st EXCEPT !.api = Append(@, ApiCall("ws_connect", cid, okConnect))] IN
         IF ~okConnect
         THEN [s1 EXCEPT !.logs = Append(@, "initialization error"), !.websocket = 0]
         ELSE LET s2 == [s1 EXCEPT
                            !.connections[cid] =
                                [state |-> "open", endpoint |-> st.heyGen_session],
                            !.websocket = cid,
                            !.connected = TRUE,
                            !.api = Append(@, ApiCall("create_task", cid, okTask))]
              IN IF okTask
                 THEN [s2 EXCEPT !.receive_tasks[cid] = [pc |-> "head", ws |-> 0]]
                 ELSE [s2 EXCEPT !.logs = Append(@, "initialization error"),
                                 !.websocket = 0]

\* _ws_connect(): nothing when a handle is held; otherwise connect to the
\* session's realtime endpoint, set connected, create the receive task; any
\* exception is logged and clears the handle.
ws_connect(st, cid, okConnect, okTask) ==
    IF st.websocket # 0
    THEN st
    ELSE IF st.heyGen_session = 0
    THEN \* self._heyGen_session.realtime_endpoint on None raises
         [st EXCEPT !.logs = Append(@, "initialization error"), !.websocket = 0]
    ELSE LET s1 == [st EXCEPT !.api = Append(@, ApiCall("ws_connect", cid, okConnect))] IN
         IF ~okConnect
         THEN [s1 EXCEPT !.logs = Append(@, "initialization error"), !.websocket = 0]
         ELSE LET s2 == [s1 EXCEPT
                            !.connections[cid] =
                                [state |-> "open", endpoint |-> st.heyGen_session],
                            !.websocket = cid,
                            !.connected = TRUE,
                            !.api = Append(@, ApiCall("create_task", cid, okTask))]
              IN IF okTask
                 THEN [s2 EXCEPT !.receive_tasks[cid] =
                                     [pc |-> "head", ws |-> 0]]
                 ELSE [s2 EXCEPT !.logs = Append(@, "initialization error"),
                                 !.websocket = 0]

\* Python's `a or b` on sample rates: b when a is None or 0 (both are 0
\* here: `or` does not tell them apart).
python_or(a, b) == IF a # 0 THEN a ELSE b

\* start() that keeps the frame's rates whatever the params say.
start_ignores_params(st, frame, cid, okConnect, okTask) ==
    ws_connect([st EXCEPT !.frame = frame,
                          !.in_sample_rate = frame.audio_in_sample_rate,
                          !.out_sample_rate = frame.audio_out_sample_rate],
               cid, okConnect, okTask)

\* start(frame): the sample rates, then _ws_connect.
start(st, frame, cid, okConnect, okTask) ==
    ws_connect([st EXCEPT !.frame = frame,
                          !.in_sample_rate = python_or(st.params.audio_in_sample_rate,
                                                       frame.audio_in_sample_rate),
                          !.out_sample_rate = python_or(st.params.audio_out_sample_rate,
                                                        frame.audio_out_sample_rate)],
               cid, okConnect, okTask)

\* _ws_disconnect(): close the handle if held and clear connected; an
\* exception of close() is logged; the handle is cleared in any case.
\* `disconnect` keeps the fields as they are when _ws_disconnect returns.
ws_disconnect(st, okWsClose) ==
    LET r == IF st.websocket # 0
             THEN LET cid == st.websocket
                      s1 == [st EXCEPT !.api = Append(@, ApiCall("ws_close", cid, okWsClose))]
                  IN IF okWsClose
                     THEN [s1 EXCEPT !.connections[cid].state = "closed",
                                     !.connected = FALSE,
                                     !.websocket = 0]
                     ELSE [s1 EXCEPT !.logs = Append(@, "disconnect error"),
                                     !.websocket = 0]
             ELSE [st EXCEPT !.connected = FALSE, !.websocket = 0]
    IN [r EXCEPT !.disconnect = [connected |-> r.connected, websocket |-> r.websocket]]

\* stop(): _ws_disconnect, then cleanup.
stop(st, okWsClose, okClose) ==
    LET s1 == ws_disconnect(st, okWsClose) IN
    IF s1.raised THEN s1 ELSE cleanup(s1, okClose)

\* base64.b64encode(audio): the length of the encoded text.
b64encode(len) == 4 * ((len + 2) \div 3)

\* A message: its type and the length of its "audio" text (0: no such key).
Message(type, audio, event_id) == [type |-> type, audio |-> audio, event_id |-> event_id]

\* str(uuid.uuid4()): the id handed out to a call in state st, and the
\* state after it.
uuid4(st) == [by |-> "uuid4", n |-> st.uuids + 1]
Drawn(st) == [st EXCEPT !.uuids = @ + 1]

\* The event_id a caller of send_audio supplies.
CallerEventIds == { [by |-> "caller", n |-> 1] }

\* _ws_send that raises on a missing handle.
ws_send_raises_unconnected(st, message, okSend) ==
    LET s1 == [st EXCEPT !.issued = Append(@, message.type)] IN
    IF st.websocket # 0
    THEN IF okSend /\ st.connections[st.websocket].state = "open"
         THEN [s1 EXCEPT !.sent = Append(@, [type |-> message.type,
                                             audio |-> message.audio,
                                             event_id |-> message.event_id,
                                             conn |-> st.websocket])]
         ELSE [s1 EXCEPT !.logs = Append(@, "send error"), !.raised = TRUE]
    ELSE [s1 EXCEPT !.logs = Append(@, "websocket not connected"), !.raised = TRUE]

\* _ws_send that logs a write failure and returns.
ws_send_swallows(st, message, okSend) ==
    LET s1 == [st EXCEPT !.issued = Append(@, message.type)] IN
    IF st.websocket # 0
    THEN IF okSend /\ st.connections[st.websocket].state = "open"
         THEN [s1 EXCEPT !.sent = Append(@, [type |-> message.type,
                                             audio |-> message.audio,
                                             event_id |-> message.event_id,
                                             conn |-> st.websocket])]
         ELSE [s1 EXCEPT !.logs = Append(@, "send error")]
    ELSE [s1 EXCEPT !.logs = Append(@, "websocket not connected")]

\* _ws_send(message): write to the handle if one is held, else log and
\* drop; a write failure is logged and raised again.
ws_send(st, message, okSend) ==
    LET s1 == [st EXCEPT !.issued = Append(@, message.type)] IN
    IF st.websocket # 0
    THEN IF okSend /\ st.connections[st.websocket].state = "open"
         THEN [s1 EXCEPT !.sent = Append(@, [type |-> message.type,
                                             audio |-> message.audio,
                                             event_id |-> message.event_id,
                                             conn |-> st.websocket])]
         ELSE [s1 EXCEPT !.logs = Append(@, "send error"), !.raised = TRUE]
    ELSE [s1 EXCEPT !.logs = Append(@, "websocket not connected")]

\* ----------------------------------------------------------- send_audio
\* _agent_audio_buffer_append(audio, event_id): audio is the length in
\* bytes of the resampled chunk.
agent_audio_buffer_append(st, audio, event_id, okSend) ==
    ws_send(Drawn(st), Message("agent.audio_buffer_append", b64encode(audio), uuid4(st)), okSend)
agent_audio_buffer_clear(st, okSend) ==
    ws_send(Drawn(st), Message("agent.audio_buffer_clear", 0, uuid4(st)), okSend)
\* _agent_audio_buffer_commit(event_id): the audio is the one byte b"\x00".
\* commit that tags the message with the caller's event_id.
agent_audio_buffer_commit_echoes(st, event_id, okSend) ==
    ws_send(st, Message("agent.audio_buffer_commit", b64encode(1), event_id), okSend)

agent_audio_buffer_commit(st, event_id, okSend) ==
    ws_send(Drawn(st), Message("agent.audio_buffer_commit", b64encode(1), uuid4(st)), okSend)

\* send_audio that commits at 1000 ms already (>= for >).
send_audio_commit_at_max(st, chunk, event_id, finish, okAppend, okClear, okCommit) ==
    LET audio == resample(chunk.len, chunk.sample_rate, HEY_GEN_SAMPLE_RATE)
        s1 == [st EXCEPT !.buffered = @ + calculate_audio_duration_ms(audio, HEY_GEN_SAMPLE_RATE)]
        s2 == agent_audio_buffer_append(s1, audio, event_id, okAppend)
        s3 == IF finish /\ s2.buffered < MinCommitMs
              THEN LET c == agent_audio_buffer_clear(s2, okClear) IN
                   IF c.raised THEN c ELSE [c EXCEPT !.buffered = 0]
              ELSE s2
        s4 == IF finish \/ s3.buffered >= MaxBufferMs
              THEN LET c == agent_audio_buffer_commit(s3, event_id, okCommit) IN
                   IF c.raised THEN c ELSE [c EXCEPT !.buffered = 0]
              ELSE s3
    IN IF s2.raised THEN s2
       ELSE IF s3.raised THEN s3
       ELSE s4

\* send_audio that discards at 80 ms as well (<= for <).
send_audio_clear_at_min(st, chunk, event_id, finish, okAppend, okClear, okCommit) ==
    LET audio == resample(chunk.len, chunk.sample_rate, HEY_GEN_SAMPLE_RATE)
        s1 == [st EXCEPT !.buffered = @ + calculate_audio_duration_ms(audio, HEY_GEN_SAMPLE_RATE)]
        s2 == agent_audio_buffer_append(s1, audio, event_id, okAppend)
        s3 == IF finish /\ s2.buffered <= MinCommitMs
              THEN LET c == agent_audio_buffer_clear(s2, okClear) IN
                   IF c.raised THEN c ELSE [c EXCEPT !.buffered = 0]
              ELSE s2
        s4 == IF finish \/ s3.buffered > MaxBufferMs
              THEN LET c == agent_audio_buffer_commit(s3, event_id, okCommit) IN
                   IF c.raised THEN c ELSE [c EXCEPT !.buffered = 0]
              ELSE s3
    IN IF s2.raised THEN s2
       ELSE IF s3.raised THEN s3
       ELSE s4

\* send_audio that holds the chunk back until a call that flushes.
send_audio_defers_append(st, chunk, event_id, finish, okAppend, okClear, okCommit) ==
    LET audio == resample(chunk.len, chunk.sample_rate, HEY_GEN_SAMPLE_RATE)
        s1 == [st EXCEPT !.buffered = @ + calculate_audio_duration_ms(audio, HEY_GEN_SAMPLE_RATE)]
        s2 == IF finish \/ s1.buffered > MaxBufferMs
              THEN agent_audio_buffer_append(s1, audio, event_id, okAppend)
              ELSE s1
        s3 == IF finish /\ s2.buffered < MinCommitMs
              THEN LET c == agent_audio_buffer_clear(s2, okClear) IN
                   IF c.raised THEN c ELSE [c EXCEPT !.buffered = 0]
              ELSE s2
        s4 == IF finish \/ s3.buffered > MaxBufferMs
              THEN LET c == agent_audio_buffer_commit(s3, event_id, okCommit) IN
                   IF c.raised THEN c ELSE [c EXCEPT !.buffered = 0]
              ELSE s3
    IN IF s2.raised THEN s2
       ELSE IF s3.raised THEN s3
       ELSE s4

\* send_audio that keeps the duration counter across a commit.
send_audio_keeps_counter(st, chunk, event_id, finish, okAppend, okClear, okCommit) ==
    LET audio == resample(chunk.len, chunk.sample_rate, HEY_GEN_SAMPLE_RATE)
        s1 == [st EXCEPT !.buffered = @ + calculate_audio_duration_ms(audio, HEY_GEN_SAMPLE_RATE)]
        s2 == agent_audio_buffer_append(s1, audio, event_id, okAppend)
        s3 == IF finish /\ s2.buffered < MinCommitMs
              THEN LET c == agent_audio_buffer_clear(s2, okClear) IN
                   IF c.raised THEN c ELSE [c EXCEPT !.buffered = 0]
              ELSE s2
        s4 == IF finish \/ s3.buffered > MaxBufferMs
              THEN agent_audio_buffer_commit(s3, event_id, okCommit)
              ELSE s3
    IN IF s2.raised THEN s2
       ELSE IF s3.raised THEN s3
       ELSE s4

\* send_audio that writes the append after the flush decisions.
send_audio_appends_last(st, chunk, event_id, finish, okAppend, okClear, okCommit) ==
    LET audio == resample(chunk.len, chunk.sample_rate, HEY_GEN_SAMPLE_RATE)
        s1 == [st EXCEPT !.buffered = @ + calculate_audio_duration_ms(audio, HEY_GEN_SAMPLE_RATE)]
        s3 == IF finish /\ s1.buffered < MinCommitMs
              THEN LET c == agent_audio_buffer_clear(s1, okClear) IN
                   IF c.raised THEN c ELSE [c EXCEPT !.buffered = 0]
              ELSE s1
        s4 == IF finish \/ s3.buffered > MaxBufferMs
              THEN LET c == agent_audio_buffer_commit(s3, event_id, okCommit) IN
                   IF c.raised THEN c ELSE [c EXCEPT !.buffered = 0]
              ELSE s3
    IN IF s3.raised THEN s3
       ELSE IF s4.raised THEN s4
       ELSE agent_audio_buffer_append(s4, audio, event_id, okAppend)

\* send_audio(audio, sample_rate, event_id, finish): resample, add the
\* duration, append; then the two flush decisions, in order.
send_audio(st, chunk, event_id, finish, okAppend, okClear, okCommit) ==
    LET audio == resample(chunk.len, chunk.sample_rate, HEY_GEN_SAMPLE_RATE)
        s1 == [st EXCEPT !.buffered = @ + calculate_audio_duration_ms(audio, HEY_GEN_SAMPLE_RATE)]
        s2 == agent_audio_buffer_append(s1, audio, event_id, okAppend)
        s3 == IF finish /\ s2.buffered < MinCommitMs
              THEN LET c == agent_audio_buffer_clear(s2, okClear) IN
                   IF c.raised THEN c ELSE [c EXCEPT !.buffered = 0]
              ELSE s2
        s4 == IF finish \/ s3.buffered > MaxBufferMs
              THEN LET c == agent_audio_buffer_commit(s3, event_id, okCommit) IN
                   IF c.raised THEN c ELSE [c EXCEPT !.buffered = 0]
              ELSE s3
    IN IF s2.raised THEN s2
       ELSE IF s3.raised THEN s3
       ELSE s4

\* ------------------------------------------------------ control messages
\* interrupt() that also drops the buffered duration.
interrupt_resets_buffer(st, okSend) ==
    [ws_send(Drawn(st), Message("agent.interrupt", 0, uuid4(st)), okSend)
        EXCEPT !.buffered = 0]

interrupt(st, okSend) ==
    ws_send(Drawn(st), Message("agent.interrupt", 0, uuid4(st)), okSend)
start_agent_listening(st, okSend) ==
    ws_send(Drawn(st), Message("agent.start_listening", 0, uuid4(st)), okSend)
stop_agent_listening(st, okSend) ==
    ws_send(Drawn(st), Message("agent.stop_listening", 0, uuid4(st)), okSend)

\* ------------------------------------------------------------ the caller
PreState ==
    [ heyGen_session |-> heyGen_session,
      websocket |-> websocket,
      connected |-> connected,
      buffered |-> buffered_audio_duration_ms,
      in_sample_rate |-> in_sample_rate,
      out_sample_rate |-> out_sample_rate,
      uuids |-> uuids ]

NoPre ==
    [ heyGen_session |-> 0, websocket |-> 0, connected |-> FALSE, buffered |-> 0,
      in_sample_rate |-> 0, out_sample_rate |-> 0, uuids |-> 0 ]

NoStep ==
    [ op |-> "none", finish |-> FALSE, dur |-> 0, pre |-> NoPre,
      api |-> << >>, issued |-> << >>, sent |-> << >>, logs |-> << >>,
      cleanups |-> 0, raised |-> FALSE, task |-> 0, event |-> "none", watchdog |-> 0,
      disconnect |-> [connected |-> FALSE, websocket |-> 0],
      frame |-> NoFrame ]

\* The operation `op` has run from the current state and ended in `st`.
Returns(op, finish, dur, st) ==
    /\ heyGen_session' = st.heyGen_session
    /\ websocket' = st.websocket
    /\ task_manager' = st.task_manager
    /\ connected' = st.connected
    /\ buffered_audio_duration_ms' = st.buffered
    /\ sessions' = st.sessions
    /\ connections' = st.connections
    /\ receive_tasks' = st.receive_tasks
    /\ params' = st.params
    /\ in_sample_rate' = st.in_sample_rate
    /\ out_sample_rate' = st.out_sample_rate
    /\ uuids' = IF uuids_kept THEN st.uuids ELSE uuids
    /\ uuids_kept' = uuids_kept
    /\ uuids_kept => st.uuids <= MaxUuids
    /\ last' = [ NoStep EXCEPT !.op = op, !.finish = finish, !.dur = dur,
                               !.pre = PreState, !.api = st.api,
                               !.issued = st.issued, !.sent = st.sent,
                               !.logs = st.logs, !.cleanups = st.cleanups,
                               !.raised = st.raised,
                               !.disconnect = st.disconnect,
                               !.frame = st.frame ]

Setup ==
    \E okNew, okStart, okClose \in BOOLEAN :
        /\ okNew => FreeSessionIds # {}
        /\ LET sid == IF FreeSessionIds # {} THEN NextSessionId ELSE 0
           IN Returns("setup", FALSE, 0, setup(Snapshot, sid, okNew, okStart, okClose))

Cleanup ==
    \E okClose \in BOOLEAN :
        Returns("cleanup", FALSE, 0, cleanup(Snapshot, okClose))

\* The start frames of the pipeline: one for the lifecycle, and a set with
\* different rates for the sample-rate selection.
DefaultFrames == { [audio_in_sample_rate |-> 16000, audio_out_sample_rate |-> 24000] }
Frames ==
    { [audio_in_sample_rate |-> 16000, audio_out_sample_rate |-> 24000],
      [audio_in_sample_rate |-> 8000, audio_out_sample_rate |-> 44100] }

StartWith(frames) ==
    \E frame \in frames, okConnect, okTask \in BOOLEAN :
        /\ okConnect => FreeConnIds # {}
        /\ LET cid == IF FreeConnIds # {} THEN NextConnId ELSE 0
           IN Returns("start", FALSE, 0, start(Snapshot, frame, cid, okConnect, okTask))

Start == StartWith(DefaultFrames)
StartAnyFrame == StartWith(Frames)

Stop ==
    \E okWsClose, okClose \in BOOLEAN :
        Returns("stop", FALSE, 0, stop(Snapshot, okWsClose, okClose))

\* The outcomes of the (up to three) writes of one send_audio call: the
\* first failing write ends the call, so at most one failure is drawn.
WriteOutcomes ==
    { << TRUE, TRUE, TRUE >>, << FALSE, TRUE, TRUE >>,
      << TRUE, FALSE, TRUE >>, << TRUE, TRUE, FALSE >> }

SendAudioOf(chunks) ==
    \E chunk \in chunks, event_id \in CallerEventIds, finish \in BOOLEAN,
       ok \in WriteOutcomes :
        /\ buffered_audio_duration_ms + ChunkDurationMs(chunk) <= MaxBufferedMs
        /\ Returns("send_audio", finish, ChunkDurationMs(chunk),
                   send_audio(Snapshot, chunk, event_id, finish, ok[1], ok[2], ok[3]))

SendAudio == SendAudioOf(AudioChunks)
SendLongAudio == SendAudioOf(LongChunks)

Interrupt ==
    \E okSend \in BOOLEAN : Returns("interrupt", FALSE, 0, interrupt(Snapshot, okSend))

StartAgentListening ==
    \E okSend \in BOOLEAN :
        Returns("start_agent_listening", FALSE, 0, start_agent_listening(Snapshot, okSend))

StopAgentListening ==
    \E okSend \in BOOLEAN :
        Returns("stop_agent_listening", FALSE, 0, stop_agent_listening(Snapshot, okSend))

\* ------------------------------------------------------ the environment
\* The server (or the network) closes a connection.
RemoteClose ==
    \E c \in ConnIds :
        /\ connections[c].state = "open"
        /\ connections' = [connections EXCEPT ![c].state = "closed"]
        /\ UNCHANGED << heyGen_session, websocket, task_manager, connected,
                        buffered_audio_duration_ms, sessions, receive_tasks,
                        params, in_sample_rate, out_sample_rate, uuids,
                        uuids_kept, last >>

\* ------------------------------------------------------ the receive task
\* _ws_receive_task_handler, one task t. pc "head": at the loop condition;
\* pc "recv": awaiting wait_for(self._websocket.recv(), timeout=1.0) on the
\* connection ws; pc "done": the coroutine has returned.
\* A receive task that clears the connected flag in each of its steps.
ClientDisconnected ==
    /\ connected' = FALSE
    /\ UNCHANGED << heyGen_session, websocket, task_manager,
                    buffered_audio_duration_ms, sessions, connections,
                    params, in_sample_rate, out_sample_rate, uuids, uuids_kept >>

ClientUnchanged ==
    UNCHANGED << heyGen_session, websocket, task_manager, connected,
                 buffered_audio_duration_ms, sessions, connections,
                 params, in_sample_rate, out_sample_rate, uuids, uuids_kept >>

RxStep(t, event, watchdog) ==
    [NoStep EXCEPT !.op = "receive", !.task = t, !.event = event, !.watchdog = watchdog]

TaskDone == [pc |-> "done", ws |-> 0]
TaskHead == [pc |-> "head", ws |-> 0]

\* `while self._connected:` and the evaluation of self._websocket.recv().
ReceiveLoopHeadOf(t) ==
    /\ receive_tasks[t].pc = "head"
    /\ IF ~connected
       THEN /\ receive_tasks' = [receive_tasks EXCEPT ![t] = TaskDone]
            /\ last' = RxStep(t, "exit", 0)
       ELSE IF websocket = 0
       THEN \* None.recv: caught by `except Exception`, logged, break
            /\ receive_tasks' = [receive_tasks EXCEPT ![t] = TaskDone]
            /\ last' = RxStep(t, "error", 0)
       ELSE /\ receive_tasks' = [receive_tasks EXCEPT ![t] = [pc |-> "recv", ws |-> websocket]]
            /\ last' = RxStep(t, "read", 0)
    /\ ClientUnchanged

ReceiveLoopHead == \E t \in ConnIds : ReceiveLoopHeadOf(t)

\* _handle_ws_server_event: what is logged for an event of this type.
handle_ws_server_event(event_type) ==
    IF event_type = "agent.status" THEN "status" ELSE "unknown"

\* The inbound messages: a status event, an event of another type, and
\* text that is not JSON.
InboundMessages == {"agent.status", "agent.other", "malformed"}

\* The loop body that leaves the loop on an event it does not know.
on_message_strict(m) ==
    IF m = "malformed"
    THEN [task |-> TaskDone, event |-> "error"]
    ELSE IF handle_ws_server_event(m) = "unknown"
    THEN [task |-> TaskDone, event |-> "unknown"]
    ELSE [task |-> TaskHead, event |-> handle_ws_server_event(m)]

\* The loop body for a message m: json.loads (text that is not JSON raises:
\* logged, break), then _handle_ws_server_event and the next iteration.
on_message(m) ==
    IF m = "malformed"
    THEN [task |-> TaskDone, event |-> "error"]
    ELSE [task |-> TaskHead, event |-> handle_ws_server_event(m)]

\* A message arrives on the connection the task reads.
ReceiveMessage ==
    \E t \in ConnIds, m \in InboundMessages :
        /\ receive_tasks[t].pc = "recv"
        /\ connections[receive_tasks[t].ws].state = "open"
        /\ receive_tasks' = [receive_tasks EXCEPT ![t] = on_message(m).task]
        /\ last' = RxStep(t, on_message(m).event, 0)
        /\ ClientUnchanged

\* The timeout handler that stops the loop.
on_timeout_stops == [task |-> TaskDone, event |-> "timeout", watchdog |-> 1]

\* asyncio.TimeoutError: task_reset_watchdog(), next iteration.
on_timeout == [task |-> TaskHead, event |-> "timeout", watchdog |-> 1]

ReceiveTimeoutOf(t) ==
    /\ receive_tasks[t].pc = "recv"
    /\ connections[receive_tasks[t].ws].state = "open"
    /\ receive_tasks' = [receive_tasks EXCEPT ![t] = on_timeout.task]
    /\ last' = RxStep(t, on_timeout.event, on_timeout.watchdog)
    /\ ClientUnchanged

ReceiveTimeout == \E t \in ConnIds : ReceiveTimeoutOf(t)

\* recv() on a closed connection raises ConnectionClosedOK (break) or
\* ConnectionClosedError (logged, break).
ReceiveClosedOf(t) ==
    \E clean \in BOOLEAN :
        /\ receive_tasks[t].pc = "recv"
        /\ connections[receive_tasks[t].ws].state = "closed"
        /\ receive_tasks' = [receive_tasks EXCEPT ![t] = TaskDone]
        /\ last' = RxStep(t, IF clean THEN "closed_ok" ELSE "error", 0)
        /\ ClientUnchanged

ReceiveClosed == \E t \in ConnIds : ReceiveClosedOf(t)

\* ------------------------------------------------------- specifications
\* A newly constructed client; the environment hands out at most
\* `nsessions` sessions and `nconns` connections.
\* The transport params: no rate configured, and the configurations with
\* one or both rates set.
NoParams == [audio_in_sample_rate |-> 0, audio_out_sample_rate |-> 0]
AnyParams ==
    [audio_in_sample_rate : {0, 48000}, audio_out_sample_rate : {0, 22050}]

InitOf(nsessions, nconns, configs, kept) ==
    /\ heyGen_session = 0
    /\ websocket = 0
    /\ task_manager = FALSE
    /\ connected = FALSE
    /\ buffered_audio_duration_ms = 0
    /\ sessions = [i \in 1..nsessions |-> "none"]
    /\ connections = [i \in 1..nconns |-> [state |-> "none", endpoint |-> 0]]
    /\ receive_tasks = [i \in 1..nconns |-> NoTask]
    /\ params \in configs
    /\ in_sample_rate = 0
    /\ out_sample_rate = 0
    /\ uuids = 0
    /\ uuids_kept = kept
    /\ last = NoStep

InitWith(nsessions, nconns) == InitOf(nsessions, nconns, {NoParams}, FALSE)

Init == InitWith(MaxSessions, MaxConns)
InitAudio == InitWith(MaxAudioSessions, MaxAudioConns)

InitLive == InitWith(MaxLiveSessions, MaxLiveConns)

\* The lifecycle operations and the receive tasks, interleaved.
Next ==
    \/ Setup
    \/ Cleanup
    \/ Start
    \/ Stop
    \/ RemoteClose
    \/ ReceiveLoopHead
    \/ ReceiveMessage
    \/ ReceiveTimeout
    \/ ReceiveClosed

Spec == InitLive /\ [][Next]_vars

\* The caller's operations alone, audio in long chunks: the receive tasks
\* are created but take no step.
NextCaller ==
    \/ Setup
    \/ Cleanup
    \/ Start
    \/ Stop
    \/ SendLongAudio
    \/ Interrupt
    \/ StartAgentListening
    \/ StopAgentListening
    \/ RemoteClose

SpecCaller == Init /\ [][NextCaller]_vars

\* The audio buffer: send_audio with the short chunks between the lifecycle
\* operations.
NextAudio ==
    \/ Setup
    \/ Cleanup
    \/ Start
    \/ Stop
    \/ SendAudio
    \/ RemoteClose

SpecAudio == InitAudio /\ [][NextAudio]_vars

\* Every operation that sends: the audio path on the chunks of AudioChunks
\* and the three control messages, for one session and one connection.
NextSend ==
    \/ Setup
    \/ Cleanup
    \/ Start
    \/ Stop
    \/ SendAudio
    \/ Interrupt
    \/ StartAgentListening
    \/ StopAgentListening
    \/ RemoteClose

SpecSend == InitAudio /\ [][NextSend]_vars

\* The receive tasks under fair scheduling. The event loop runs every task
\* that is ready, so a task at its loop condition and a task whose read
\* has failed take their step; wait_for(..., timeout=1.0) ends a read
\* that no message ends.
FairnessOf(ntasks) ==
    \A t \in 1..ntasks :
        /\ WF_vars(ReceiveLoopHeadOf(t))
        /\ WF_vars(ReceiveTimeoutOf(t))
        /\ WF_vars(ReceiveClosedOf(t))

SpecLive == InitLive /\ [][Next]_vars /\ FairnessOf(MaxLiveConns)

\* The same for one session and one connection.
SpecQuiet == InitAudio /\ [][Next]_vars /\ FairnessOf(MaxAudioConns)

\* start(frame) for every configuration of the transport params and the
\* start frames of Frames.
InitRates == InitOf(MaxAudioSessions, MaxAudioConns, AnyParams, FALSE)

NextRates ==
    \/ Setup
    \/ Cleanup
    \/ StartAnyFrame
    \/ Stop
    \/ RemoteClose

SpecRates == InitRates /\ [][NextRates]_vars

\* The operations that send, in behaviours that keep count of the ids
\* uuid4 hands out (at most MaxUuids of them).
InitEvents == InitOf(MaxAudioSessions, MaxAudioConns, {NoParams}, TRUE)

NextEvents ==
    \/ Setup
    \/ Start
    \/ Stop
    \/ SendAudio
    \/ Interrupt
    \/ StartAgentListening
    \/ StopAgentListening

SpecEvents == InitEvents /\ [][NextEvents]_vars

\* ------------------------------------------------------------ properties
Count(seq, x) == Cardinality({ i \in 1..Len(seq) : seq[i] = x })
SentCount(type) == Cardinality({ i \in 1..Len(last.sent) : last.sent[i].type = type })
ApiNames(api) == [ i \in 1..Len(api) |-> api[i].name ]
Calls(api, name) == { i \in 1..Len(api) : api[i].name = name }

APPEND == "agent.audio_buffer_append"
CLEAR == "agent.audio_buffer_clear"
COMMIT == "agent.audio_buffer_commit"

\* send_audio has returned normally; total is the buffered duration
\* including the chunk of the call.
SendAudioReturned == last.op = "send_audio" /\ ~last.raised
SendAudioTotal == last.pre.buffered + last.dur

\* C1: a send_audio call with finish=True whose cumulative duration is
\* below 80 ms sends a clear on the held channel handle, leaves the buffered
\* duration at 0 and sends no commit.
C1_FinishBelowMinClearsWithoutCommit ==
    (SendAudioReturned /\ last.finish /\ SendAudioTotal < MinCommitMs
        /\ last.pre.websocket # 0)
        => /\ SentCount(CLEAR) = 1
           /\ buffered_audio_duration_ms = 0
           /\ SentCount(COMMIT) = 0

\* C2: a send_audio call with finish=False issues a commit exactly when the
\* buffered duration including its chunk is strictly above 1000 ms (so in
\* no call before the one that crosses the threshold); on a held handle the
\* commit is then written to the connection; the buffered duration is 0
\* when the committing call returns.
C2_CommitExactlyOnCrossing ==
    (SendAudioReturned /\ ~last.finish)
        => /\ Count(last.issued, COMMIT) = (IF SendAudioTotal > MaxBufferMs THEN 1 ELSE 0)
           /\ last.pre.websocket # 0 => SentCount(COMMIT) = Count(last.issued, COMMIT)
           /\ last.pre.websocket = 0 => SentCount(COMMIT) = 0
           /\ SendAudioTotal > MaxBufferMs => buffered_audio_duration_ms = 0
           /\ SendAudioTotal <= MaxBufferMs => buffered_audio_duration_ms = SendAudioTotal

\* C2 witness: the buffer stood at exactly 1000 ms without a commit, and
\* the next 40 ms chunk was followed by a commit on the connection.
C2_Witness ==
    /\ SendAudioReturned /\ ~last.finish
    /\ last.pre.buffered = MaxBufferMs
    /\ SentCount(COMMIT) = 1
    /\ buffered_audio_duration_ms = 0

\* C3: a send_audio call with finish=True whose cumulative duration is at
\* least 80 ms issues exactly one commit and no clear and leaves the
\* buffered duration at 0; on a held handle the commit is written to the
\* connection.
C3_FinishAtOrAboveMinCommits ==
    (SendAudioReturned /\ last.finish /\ SendAudioTotal >= MinCommitMs)
        => /\ Count(last.issued, COMMIT) = 1
           /\ Count(last.issued, CLEAR) = 0
           /\ last.pre.websocket # 0 => (SentCount(COMMIT) = 1 /\ SentCount(CLEAR) = 0)
           /\ buffered_audio_duration_ms = 0

\* C3 witness: finish at exactly 80 ms, committed on the connection.
C3_Witness ==
    /\ SendAudioReturned /\ last.finish
    /\ SendAudioTotal = MinCommitMs
    /\ last.pre.buffered > 0
    /\ SentCount(COMMIT) = 1
    /\ buffered_audio_duration_ms = 0

\* A step of the caller: every operation records itself in last.
CallerStep(op) == last' # last /\ last'.op = op

\* C4: a setup() that follows a setup() which created and started a session
\* (no cleanup ran) makes no remote call and leaves the session as it is, so
\* the two calls together made exactly one new_session and one
\* start_session call; and any setup() with a session held makes no remote
\* call.
C4_SetupTwiceCallsRemoteOnce ==
    [][ /\ (CallerStep("setup") /\ last.op = "setup" /\ last.cleanups = 0
               /\ last.pre.heyGen_session = 0)
            => /\ ApiNames(last.api) = << "new_session", "start_session" >>
               /\ last'.api = << >>
               /\ heyGen_session # 0
        /\ (CallerStep("setup") /\ heyGen_session # 0)
            => /\ last'.api = << >>
               /\ heyGen_session' = heyGen_session
               /\ sessions' = sessions
               /\ ~last'.raised
      ]_vars

\* C4 witness: setup() has run with a started session held.
C4_Witness ==
    /\ last.op = "setup"
    /\ last.pre.heyGen_session # 0
    /\ heyGen_session = last.pre.heyGen_session
    /\ sessions[heyGen_session] = "started"
    /\ last.api = << >>

\* new_session succeeded and start_session failed in the last setup().
StartFailedInSetup ==
    /\ last.op = "setup"
    /\ Len(last.api) >= 2
    /\ last.api[1].name = "new_session" /\ last.api[1].ok
    /\ last.api[2].name = "start_session" /\ ~last.api[2].ok

\* C5: when new_session succeeds and start_session fails in setup(),
\* cleanup() runs before setup() returns and calls close_session with the
\* id of the session just created.
C5_StartFailureClosesCreatedSession ==
    StartFailedInSetup
        => /\ last.cleanups = 1
           /\ Len(last.api) = 3
           /\ last.api[3].name = "close_session"
           /\ last.api[3].arg = last.api[1].arg
           /\ last.api[2].arg = last.api[1].arg
           /\ ~last.raised

\* C5 witness: the failure path ran and the created session was closed.
C5_Witness ==
    /\ StartFailedInSetup
    /\ last.api[3].ok
    /\ sessions[last.api[1].arg] = "closed"
    /\ heyGen_session = 0

\* C6: after a setup() in which session creation or start threw, every
\* remote session created during that setup() has been closed.
C6_FailedSetupLeavesNoOrphan ==
    (last.op = "setup" /\ last.cleanups > 0)
        => \A i \in Calls(last.api, "new_session") :
               last.api[i].ok => sessions[last.api[i].arg] = "closed"

C8_TeardownNeverRaises ==
    (last.op \in {"cleanup", "stop"})
        => /\ ~last.raised
           /\ \A i \in Calls(last.api, "close_session") :
                  ~last.api[i].ok => Count(last.logs, "cleanup exception") = 1
           /\ \A i \in Calls(last.api, "ws_close") :
                  ~last.api[i].ok => Count(last.logs, "disconnect error") = 1

\* C8 witness: a stop() in which both the websocket close and close_session
\* failed.
C8_Witness ==
    /\ last.op = "stop" /\ ~last.raised
    /\ Len(last.api) = 2
    /\ ~last.api[1].ok /\ ~last.api[2].ok

\* C9: start() with a channel handle held opens no connection and creates
\* no receive task.
C9_StartWhileConnectedIsNoOp ==
    [][ (CallerStep("start") /\ websocket # 0)
            => /\ connections' = connections
               /\ receive_tasks' = receive_tasks
               /\ websocket' = websocket
               /\ connected' = connected
               /\ last'.api = << >> ]_vars

\* C9 witness: start() has run on a connected channel whose receive task
\* exists.
C9_Witness ==
    /\ last.op = "start"
    /\ last.pre.websocket # 0 /\ last.pre.connected
    /\ websocket = last.pre.websocket
    /\ receive_tasks[websocket].pc = "head"
    /\ connections[websocket].state = "open"

\* C10: a message of an unknown type does not end the receive loop: the
\* error is logged and the task is back at the loop condition, from where
\* it reads again while the channel is connected.
C10_UnknownEventKeepsLoopRunning ==
    (last.op = "receive" /\ last.event = "unknown")
        => /\ receive_tasks[last.task].pc = "head"
           /\ (connected /\ websocket # 0) => ENABLED ReceiveLoopHead

\* C10 witness: an unknown event has been dispatched on a connected channel
\* and the task is at the loop condition.
C10_Witness ==
    /\ last.op = "receive" /\ last.event = "unknown"
    /\ receive_tasks[last.task].pc = "head"
    /\ connected /\ websocket # 0
    /\ connections[websocket].state = "open"

\* ------------------------------------------------------------ C11 .. C20
ControlOps == {"interrupt", "start_agent_listening", "stop_agent_listening"}
SendOps == ControlOps \cup {"send_audio"}

\* The length in bytes of 16-bit audio of `dur` ms at HEY_GEN_SAMPLE_RATE.
BytesOfMs(dur) == (dur * HEY_GEN_SAMPLE_RATE * 2) \div 1000

Appends(sent) == { i \in 1..Len(sent) : sent[i].type = APPEND }

\* C11: the caller's send_audio calls are successive steps, so the order of
\* the appends on the wire is the order of the calls if each call writes
\* the append of its own chunk, once, before it returns and before any
\* other message of the call: no append is held back, merged or repeated.
C11_EachCallWritesItsOwnAppendFirst ==
    (last.op = "send_audio" /\ last.pre.websocket # 0)
        => /\ Len(last.issued) >= 1
           /\ last.issued[1] = APPEND
           /\ Count(last.issued, APPEND) = 1
           /\ Appends(last.sent) \subseteq {1}
           /\ \A i \in Appends(last.sent) :
                  /\ last.sent[i].audio = b64encode(BytesOfMs(last.dur))
                  /\ last.sent[i].conn = last.pre.websocket
           /\ Appends(last.sent) = {} => (last.raised /\ last.sent = << >>)

\* C11 witness: a call with a 960 ms chunk has written its append after an
\* earlier call had left 40 ms in the buffer.
C11_Witness ==
    /\ last.op = "send_audio" /\ last.pre.websocket # 0
    /\ last.pre.buffered = 40 /\ last.dur = 960
    /\ Len(last.sent) = 1
    /\ last.sent[1].type = APPEND
    /\ last.sent[1].audio = b64encode(46080)

\* C12: a websocket connect is made, and a message is written, only for a
\* session that exists and that start_session has started.
C12_ChannelOnlyForStartedSession ==
    /\ (last.op = "start" /\ Calls(last.api, "ws_connect") # {})
           => /\ last.pre.heyGen_session # 0
              /\ sessions[last.pre.heyGen_session] = "started"
    /\ \A i \in 1..Len(last.sent) :
           sessions[connections[last.sent[i].conn].endpoint] # "created"

\* C13: with no handle held, a send operation writes nothing and returns
\* normally; each of its messages is logged as not connected and dropped.
C13_UnconnectedSendsAreDropped ==
    (last.op \in SendOps /\ last.pre.websocket = 0)
        => /\ last.sent = << >>
           /\ ~last.raised
           /\ last.issued # << >>
           /\ last.logs = [ i \in 1..Len(last.issued) |-> "websocket not connected" ]

\* C13 witness: a send_audio call without a handle has dropped its append,
\* its clear and its commit.
C13_Witness ==
    /\ last.op = "send_audio" /\ last.pre.websocket = 0
    /\ last.issued = << APPEND, CLEAR, COMMIT >>
    /\ last.sent = << >> /\ ~last.raised

\* The last call found a session held that start_session had started.
StartedBefore ==
    /\ last.pre.heyGen_session # 0
    /\ sessions[last.pre.heyGen_session] = "started"

\* C14: a write failure on a held handle during a control message is
\* logged and swallowed: the control operation returns normally.
C14_ControlWriteFailureIsSwallowed ==
    (last.op \in ControlOps /\ StartedBefore /\ last.pre.connected
         /\ last.pre.websocket # 0 /\ last.sent = << >>)
        => /\ last.logs = << "send error" >>
           /\ ~last.raised

\* C15: send_audio raises exactly when one of its writes (append, clear or
\* commit) fails; the failure is logged and the call ends at that write.
C15_AudioWriteFailureIsRaised ==
    last.op = "send_audio"
        => /\ last.raised <=> Count(last.logs, "send error") > 0
           /\ last.raised => /\ last.logs = << "send error" >>
                             /\ Len(last.sent) = Len(last.issued) - 1

\* C15 witness: the append was written and the commit's write failed.
C15_Witness ==
    /\ last.op = "send_audio" /\ last.raised
    /\ last.issued = << APPEND, COMMIT >>
    /\ Len(last.sent) = 1

\* C16: when _ws_disconnect returns, connected is false and the handle is
\* cleared, whether or not close() succeeded; without a handle it makes no
\* call; it never raises.
C16_DisconnectAlwaysClearsConnected ==
    last.op = "stop"
        => /\ ~last.disconnect.connected
           /\ last.disconnect.websocket = 0
           /\ ~last.raised
           /\ last.pre.websocket = 0 => Calls(last.api, "ws_close") = {}

\* start() has tried to open the channel for a started session, from a
\* disconnected client, and a step of _ws_connect failed.
ConnectFailed ==
    /\ last.op = "start" /\ StartedBefore
    /\ last.pre.websocket = 0 /\ ~last.pre.connected
    /\ \E i \in 1..Len(last.api) : ~last.api[i].ok

\* C17: after a failed connect start() has returned normally, connected is
\* false, the handle is cleared and no receive task was created.
C17_FailedConnectLeavesDisconnected ==
    ConnectFailed
        => /\ ~last.raised
           /\ ~connected
           /\ websocket = 0
           /\ \A i \in Calls(last.api, "ws_connect") :
                  receive_tasks[last.api[i].arg].pc = "none"

\* C18: after cleanup() the client is at its initial values (no session,
\* not connected, nothing buffered); without a session cleanup() makes no
\* remote call; it never raises.
C18_CleanupRestoresInitialState ==
    last.op = "cleanup"
        => /\ heyGen_session = 0
           /\ ~connected
           /\ buffered_audio_duration_ms = 0
           /\ ~last.raised
           /\ last.pre.heyGen_session = 0 => last.api = << >>

\* A clear or a commit of the last call took place: it was written, or it
\* was dropped for lack of a handle and the call went on.
FlushTookPlace ==
    /\ last.op = "send_audio"
    /\ \/ SentCount(CLEAR) + SentCount(COMMIT) > 0
       \/ /\ ~last.raised
          /\ Count(last.issued, CLEAR) + Count(last.issued, COMMIT) > 0

\* C19: the buffered duration is never negative, and it is 0 in the state
\* after every clear and every commit.
C19_BufferedNonNegativeAndZeroAfterFlush ==
    /\ buffered_audio_duration_ms >= 0
    /\ FlushTookPlace => buffered_audio_duration_ms = 0

\* C19 witness: a commit was written by a call that found audio buffered.
C19_Witness ==
    /\ last.op = "send_audio" /\ last.pre.buffered > 0
    /\ SentCount(COMMIT) = 1 /\ SentCount(CLEAR) = 0
    /\ buffered_audio_duration_ms = 0

LiveSessions == { i \in SessionIds : sessions[i] \in {"created", "started"} }

\* C20: at most one session of the client is live (created and not closed),
\* and it is the one the client holds; new_session is called only while
\* the client holds none, so never while an earlier session is unclosed.
C20_AtMostOneLiveSession ==
    /\ Cardinality(LiveSessions) <= 1
    /\ LiveSessions \subseteq {heyGen_session}
    /\ (last.op = "setup" /\ Calls(last.api, "new_session") # {})
           => last.pre.heyGen_session = 0

\* C20 witness: a second session is live after the first was closed.
C20_Witness ==
    /\ \E i \in SessionIds : sessions[i] = "closed"
    /\ LiveSessions # {}
    /\ last.op = "setup" /\ Calls(last.api, "new_session") # {}

\* ------------------------------------------------------------ C21 .. C30
OpenConnections == { c \in ConnIds : connections[c].state = "open" }

\* C21: at most one connection opened by the client is open at any time
\* (here: in the states where every session created was also started).
C21_AtMostOneOpenConnection ==
    (\A i \in SessionIds : sessions[i] # "created")
        => Cardinality(OpenConnections) <= 1

\* The session held is one that start_session has started.
StartedSessionHeld ==
    /\ heyGen_session # 0
    /\ sessions[heyGen_session] = "started"

\* C22: once the receive loop of the channel in use has ended on an error,
\* the channel is closed: connected is false and the handle is cleared.
C22_ReceiveErrorClosesChannel ==
    (last.op = "receive" /\ last.event = "error"
         /\ last.task = websocket /\ StartedSessionHeld)
        => /\ ~connected
           /\ websocket = 0

\* C23: the start() that follows the end of the receive loop on an error,
\* with the session still held, tries to open a connection, and when
\* connect and create_task succeed a receive loop runs on the new
\* connection.
C23_StartAfterLoopErrorReconnects ==
    [][ ( /\ last.op = "receive" /\ last.event = "error"
          /\ StartedSessionHeld
          /\ CallerStep("start") )
        => /\ Calls(last'.api, "ws_connect") # {}
           /\ (\A i \in 1..Len(last'.api) : last'.api[i].ok)
                  => /\ websocket' # 0
                     /\ connections'[websocket'].state = "open"
                     /\ receive_tasks'[websocket'].pc = "head" ]_vars

\* C24: a receive loop that is in its read when stop() returns ends
\* eventually, whether or not close() succeeded (here: for a client whose
\* sessions were all started).
C24_StopEndsReceiveLoop ==
    \A t \in 1..MaxLiveConns :
        (last.op = "stop" /\ receive_tasks[t].pc = "recv"
             /\ \A i \in SessionIds : sessions[i] # "created")
            ~> (receive_tasks[t].pc = "done")

\* C25: interrupt(), start_agent_listening() and stop_agent_listening()
\* leave the session, the handle, the connected flag, the sample rates and
\* the buffered duration as they were; they make no remote call and write
\* at most one message.
C25_ControlOpsLeaveStateUnchanged ==
    last.op \in ControlOps
        => /\ heyGen_session = last.pre.heyGen_session
           /\ websocket = last.pre.websocket
           /\ connected = last.pre.connected
           /\ in_sample_rate = last.pre.in_sample_rate
           /\ out_sample_rate = last.pre.out_sample_rate
           /\ buffered_audio_duration_ms = last.pre.buffered
           /\ last.api = << >>
           /\ Len(last.issued) = 1
           /\ Len(last.sent) <= 1

\* C25 witness: interrupt() has written its message on a connected channel
\* with audio buffered.
C25_Witness ==
    /\ last.op = "interrupt"
    /\ Len(last.sent) = 1 /\ last.sent[1].type = "agent.interrupt"
    /\ last.pre.buffered > 0 /\ buffered_audio_duration_ms = last.pre.buffered
    /\ connected /\ websocket # 0

\* C26: a send_audio call with finish=False whose total is at most 1000 ms
\* issues exactly one append and neither clear nor commit (on a held handle
\* the append is the one message written unless its write fails), and the
\* buffered duration is the previous one plus the chunk's.
C26_BelowMaxOnlyAppends ==
    (last.op = "send_audio" /\ ~last.finish /\ SendAudioTotal <= MaxBufferMs)
        => /\ last.issued = << APPEND >>
           /\ buffered_audio_duration_ms = last.pre.buffered + last.dur
           /\ (last.pre.websocket # 0 /\ ~last.raised)
                  => /\ Len(last.sent) = 1
                     /\ last.sent[1].type = APPEND
           /\ (last.pre.websocket = 0 \/ last.raised) => last.sent = << >>

\* C26 witness: a call has brought the buffer to exactly 1000 ms and has
\* written its append only.
C26_Witness ==
    /\ last.op = "send_audio" /\ ~last.finish
    /\ last.pre.buffered > 0 /\ SendAudioTotal = MaxBufferMs
    /\ Len(last.sent) = 1 /\ last.sent[1].type = APPEND
    /\ buffered_audio_duration_ms = MaxBufferMs

\* A receive task has handled a timeout in this step.
TimeoutStep ==
    /\ receive_tasks' # receive_tasks
    /\ last'.op = "receive" /\ last'.event = "timeout"

\* The channel is connected, the loop of task t runs and the last step was
\* not the arrival of a message.
QuietChannel(t) ==
    /\ connected /\ websocket # 0
    /\ connections[websocket].state = "open"
    /\ receive_tasks[t].pc \in {"head", "recv"}
    /\ ~(last.op = "receive" /\ last.event \in {"status", "unknown", "error"})

\* C27: a read timeout leaves the loop running (the task is back at the
\* loop condition after exactly one watchdog reset) and changes neither
\* the client's fields nor a connection; on a channel that stays connected
\* without inbound messages the timeouts, and so the watchdog resets, occur
\* again and again.
C27_TimeoutKeepsLoopRunning ==
    /\ []( (last.op = "receive" /\ last.event = "timeout")
             => /\ receive_tasks[last.task].pc = "head"
                /\ last.watchdog = 1 )
    /\ [][ TimeoutStep
             => UNCHANGED << heyGen_session, websocket, connected,
                             buffered_audio_duration_ms, sessions, connections >> ]_vars
    /\ \A t \in 1..MaxAudioConns :
           <>[]QuietChannel(t) => []<><<ReceiveTimeoutOf(t)>>_vars

\* C27 witness: a timeout was handled on a connected channel and the task
\* is at the loop condition.
C27_Witness ==
    /\ last.op = "receive" /\ last.event = "timeout" /\ last.watchdog = 1
    /\ receive_tasks[last.task].pc = "head"
    /\ connected /\ websocket # 0
    /\ connections[websocket].state = "open"

\* C28: a step of a receive task changes neither the session reference,
\* the handle, the connected flag nor the buffered duration.
C28_ReceiveLoopWritesNoField ==
    [][ (receive_tasks' # receive_tasks /\ last'.op = "receive")
        => UNCHANGED << heyGen_session, websocket, connected,
                        buffered_audio_duration_ms >> ]_vars

\* C28 witness: a receive task has dispatched a status event while the
\* caller holds a session and a connected channel.
C28_Witness ==
    /\ last.op = "receive" /\ last.event = "status"
    /\ heyGen_session # 0 /\ websocket # 0 /\ connected

\* C29: after start(frame) each sample rate is the configured one when one
\* is configured and the frame's otherwise, whatever the connect did.
C29_StartSelectsSampleRates ==
    last.op = "start"
        => /\ in_sample_rate =
                  IF params.audio_in_sample_rate # 0
                  THEN params.audio_in_sample_rate
                  ELSE last.frame.audio_in_sample_rate
           /\ out_sample_rate =
                  IF params.audio_out_sample_rate # 0
                  THEN params.audio_out_sample_rate
                  ELSE last.frame.audio_out_sample_rate

\* C29 witness: start(frame) with only the input rate configured, on a
\* connect that failed.
C29_Witness ==
    /\ last.op = "start"
    /\ \E i \in 1..Len(last.api) : ~last.api[i].ok
    /\ params.audio_in_sample_rate = 48000 /\ params.audio_out_sample_rate = 0
    /\ last.frame.audio_out_sample_rate = 44100
    /\ in_sample_rate = 48000 /\ out_sample_rate = 44100

\* C30: every message written carries an id that uuid4 handed out during
\* the call (so none that an earlier message carries, and never the id the
\* caller supplied), and no two messages of the call carry the same id.
C30_EventIdsAreFresh ==
    last.op \in SendOps
        => /\ \A i \in 1..Len(last.sent) :
                  /\ last.sent[i].event_id.by = "uuid4"
                  /\ last.sent[i].event_id.n > last.pre.uuids
                  /\ last.sent[i].event_id.n <= uuids
           /\ \A i, j \in 1..Len(last.sent) :
                  i # j => last.sent[i].event_id # last.sent[j].event_id

\* C30 witness: a send_audio call has written append, clear and commit
\* after earlier messages.
C30_Witness ==
    /\ last.op = "send_audio" /\ last.pre.uuids > 0
    /\ Len(last.sent) = 3
    /\ last.sent[3].type = COMMIT

\* ------------------------------------------------------------ C31 .. C40
\* C31: the connected flag is set only with a session reference held: in
\* every state connected implies a session reference, and the step that
\* sets the flag is a start() that found a session held.
C31_ConnectedOnlyWithSession ==
    /\ connected => heyGen_session # 0
    /\ (connected /\ ~last.pre.connected /\ last.op # "none" /\ last.op # "receive")
           => (last.op = "start" /\ last.pre.heyGen_session # 0)

\* C31 witness: a cleanup() whose close_session failed has returned on a
\* connected client, which still holds its session.
C31_Witness ==
    /\ last.op = "cleanup"
    /\ Len(last.api) = 1 /\ ~last.api[1].ok
    /\ connected /\ heyGen_session # 0

\* The total duration of the audio in the appends the last call wrote.
TransmittedMs ==
    IF Appends(last.sent) = {} THEN 0 ELSE last.dur

\* C32: the buffered duration counts the audio of the appends written to
\* the connection: a send_audio call that issues neither clear nor commit
\* adds to it the duration of the audio it has written, so nothing for a
\* chunk that was dropped for lack of a handle.
C32_BufferedCountsTransmittedAudio ==
    (SendAudioReturned /\ last.issued = << APPEND >>)
        => buffered_audio_duration_ms = last.pre.buffered + TransmittedMs

\* C33: connected implies that a handle is held (here: in the states where
\* every session created was also started).
C33_ConnectedImpliesHandle ==
    (\A i \in SessionIds : sessions[i] # "created")
        => (connected => websocket # 0)

\* C34: a handle is held only with a session held, and it was opened to
\* the endpoint of that session; so a message is written only to a
\* connection of the session held.
C34_HandleBelongsToHeldSession ==
    /\ websocket # 0
           => /\ heyGen_session # 0
              /\ connections[websocket].endpoint = heyGen_session
    /\ \A i \in 1..Len(last.sent) :
           connections[last.sent[i].conn].endpoint = heyGen_session

\* The receive tasks that are in their read on the connection of the handle.
ReadersOfHandle ==
    { t \in ConnIds : /\ receive_tasks[t].pc = "recv"
                      /\ websocket # 0
                      /\ receive_tasks[t].ws = websocket }

\* C35: at most one receive task reads from the handle's connection (here:
\* for a client whose sessions were all started, in the states where no
\* connection has been closed, so after a close that failed).
C35_AtMostOneReceiveLoop ==
    ( /\ \A i \in SessionIds : sessions[i] # "created"
      /\ \A c \in ConnIds : connections[c].state # "closed" )
        => Cardinality(ReadersOfHandle) <= 1

\* C36: after a send_audio call that returns normally the buffered
\* duration is at most 1000 ms, and it is 0 when the call had finish=True.
C36_BufferedBoundedAfterSendAudio ==
    SendAudioReturned
        => /\ buffered_audio_duration_ms <= MaxBufferMs
           /\ last.finish => buffered_audio_duration_ms = 0

\* C36 witness: a finish=True call that found exactly 1000 ms buffered has
\* returned after its commit was written.
C36_Witness ==
    /\ SendAudioReturned /\ last.finish
    /\ last.pre.buffered = MaxBufferMs
    /\ SentCount(COMMIT) = 1
    /\ buffered_audio_duration_ms = 0

\* C37: a send_audio call that raises (a write on the connected channel of
\* a started session failed) leaves the buffered duration as it was before
\* the call.
C37_FailedSendAudioKeepsBuffered ==
    (last.op = "send_audio" /\ last.raised /\ StartedBefore /\ last.pre.connected)
        => buffered_audio_duration_ms = last.pre.buffered

\* The last call found a handle held, the connected flag set and the
\* connection open.
OnConnectedChannel ==
    /\ last.pre.websocket # 0 /\ last.pre.connected
    /\ connections[last.pre.websocket].state = "open"

\* C38: a send_audio call on a connected channel issues one append, first;
\* what it writes is that append followed by clears and commits only, so
\* every clear and commit written comes after the append of the call; the
\* append is missing from the connection only when its write failed, and
\* then the call has raised and written nothing.
C38_AppendPrecedesFlush ==
    (last.op = "send_audio" /\ OnConnectedChannel)
        => /\ Count(last.issued, APPEND) = 1
           /\ last.issued[1] = APPEND
           /\ last.sent # << >> => last.sent[1].type = APPEND
           /\ \A i \in 2..Len(last.sent) : last.sent[i].type \in {CLEAR, COMMIT}
           /\ ~last.raised => Cardinality(Appends(last.sent)) = 1
           /\ last.sent = << >> => last.raised

\* C38 witness: the call that crossed 1000 ms has written its append and
\* then the commit.
C38_Witness ==
    /\ last.op = "send_audio" /\ OnConnectedChannel /\ ~last.finish
    /\ Len(last.sent) = 2
    /\ last.sent[1].type = APPEND /\ last.sent[2].type = COMMIT
    /\ last.sent[1].audio = b64encode(BytesOfMs(last.dur))

\* The failed close_session calls of the last operation.
FailedCloses == { i \in Calls(last.api, "close_session") : ~last.api[i].ok }

\* C39: after a cleanup() whose close_session failed (called directly, by
\* stop() or by a failing setup()) the client holds the session of that
\* call, and connected and the buffered duration are as cleanup() found
\* them; a cleanup() or stop() with a session held calls close_session for
\* that session; the session reference is cleared only by an operation
\* whose close_session call for it succeeded.
C39_FailedCloseKeepsSession ==
    /\ []( \A i \in FailedCloses :
              /\ heyGen_session = last.api[i].arg
              /\ last.op \in {"cleanup", "stop"}
                     => buffered_audio_duration_ms = last.pre.buffered
              /\ last.op = "cleanup" => connected = last.pre.connected
              /\ last.op = "stop" => connected = last.disconnect.connected )
    /\ [][ ((CallerStep("cleanup") \/ CallerStep("stop")) /\ heyGen_session # 0)
               => /\ Cardinality(Calls(last'.api, "close_session")) = 1
                  /\ \A i \in Calls(last'.api, "close_session") :
                         last'.api[i].arg = heyGen_session ]_vars
    /\ [][ (heyGen_session # 0 /\ heyGen_session' # heyGen_session)
               => \E i \in Calls(last'.api, "close_session") :
                      last'.api[i].ok /\ last'.api[i].arg = heyGen_session ]_vars

\* C39 witness: a stop() has closed the channel and its close_session has
\* failed: the session is still held and the buffered audio still counted.
C39_Witness ==
    /\ last.op = "stop"
    /\ Len(last.api) = 2 /\ last.api[1].ok /\ ~last.api[2].ok
    /\ last.pre.heyGen_session # 0 /\ heyGen_session = last.pre.heyGen_session
    /\ last.pre.buffered > 0 /\ buffered_audio_duration_ms = last.pre.buffered

\* C40: the setup() that follows a stop() of a started session calls
\* new_session, whatever the remote calls of the stop() did.
C40_SetupAfterStopCreatesSession ==
    [][ (last.op = "stop" /\ StartedBefore /\ CallerStep("setup"))
            => Calls(last'.api, "new_session") # {} ]_vars

====
